---- MODULE Spec2Model ----
(***************************************************************************)
(* Model of server.py, the Meter Usage API: the meter catalog, the usage  *)
(* waveform get_usage_value_for_time, and the two request handlers         *)
(* get_meters and get_meter_usage, each split at its single await point.   *)
(*                                                                         *)
(* Time.  A datetime is a record [wall, aware, off]: wall is the value of  *)
(* its calendar fields counted in ticks from datetime.min, aware says      *)
(* whether it carries a tzinfo, off is its UTC offset in minutes.  A tick  *)
(* is 1/TicksPerMinute of a minute (a whole number of seconds).  The       *)
(* representable range datetime.min..datetime.max is 0..MaxWall.           *)
(*                                                                         *)
(* Requests.  Two connections are served at once; each handler runs from   *)
(* its start to its await in one step and from the await to its return in  *)
(* the next, as the event loop schedules it.  The rate limiter and the     *)
(* framework's own parameter checks act before the handlers and are not    *)
(* modelled.                                                               *)
(*                                                                         *)
(* Numbers.  Floats are modelled in fixed point, Scale units per 1.0;      *)
(* cos, sin and exp are evaluated by range reduction and Taylor series.    *)
(* The value of a reading is in hundredths (round(x, 2)).                  *)
(***************************************************************************)
EXTENDS Integers, Sequences, FiniteSets

\* ---------------------------------------------------------------- bounds
\* Ticks per minute: the resolution of a timestamp below the minute.
TicksPerMinute == 2
\* Days in the representable range of a datetime (datetime.min..datetime.max).
HorizonDays == 3
\* Longest of the short intervals requested, in ticks.
MaxSmallTicks == 6
\* Catalog index of the second meter that requests name.
SampleMeter == 457
\* The materialization loop is run for up to 2^LoopDoublings passes.
LoopDoublings == 11
\* Minutes between two instants at which the waveform sweep evaluates a meter.
WaveStride == 13

\* ------------------------------------------------------ program constants
NumMeters == 1000
MeterBase == 100000
MaxMinutes == 1440
Scale == 1000

MinutesPerDay == 24 * 60
MaxWall == HorizonDays * MinutesPerDay * TicksPerMinute - 1
LastMinute == MaxWall - (TicksPerMinute - 1)
Base == MinutesPerDay * TicksPerMinute

\* ------------------------------------------------------------ meter catalog
RECURSIVE Digits(_)
\* str(n) for n >= 0, as a sequence of decimal digits.
Digits(n) == IF n < 10 THEN <<n>> ELSE Append(Digits(n \div 10), n % 10)

RECURSIVE ZeroPad(_, _)
ZeroPad(ds, width) == IF Len(ds) >= width THEN ds ELSE ZeroPad(<<0>> \o ds, width)

\* f"{n:06d}": zero-padded to a minimum width of six.
Format06d(n) == ZeroPad(Digits(n), 6)

\* Off-by-one catalog numbering (range(1, 1001)).
MeterIdShifted(i) == <<1, 0, 2, 0>> \o Format06d(MeterBase + i + 1)

\* f"1020{100000 + i:06d}"
MeterId(i) == <<1, 0, 2, 0>> \o Format06d(MeterBase + i)

\* METERS = [{"meter_id": ...} for i in range(1000)]
BuildMeters == [k \in 1..NumMeters |-> [meter_id |-> MeterId(k - 1)]]

\* VALID_METER_IDS = {m["meter_id"] for m in METERS}
BuildValidIds(meters) == {meters[k].meter_id : k \in 1..Len(meters)}

RECURSIVE ParseInt(_)
\* int(s) for a string of decimal digits.
ParseInt(ds) == IF ds = <<>> THEN 0
                ELSE ParseInt(SubSeq(ds, 1, Len(ds) - 1)) * 10 + ds[Len(ds)]

\* s[-6:]
Last6(ds) == IF Len(ds) <= 6 THEN ds ELSE SubSeq(ds, Len(ds) - 5, Len(ds))

\* --------------------------------------------------------- fixed-point math
Pi == 3142
TwoPi == 6283
HalfPi == 1571

\* cos(x) for 0 <= x <= pi/2, x in 1/Scale radians: Taylor series to x^8.
CosSeries(x) ==
    LET x2 == (x * x) \div Scale
        x4 == (x2 * x2) \div Scale
        x6 == (x4 * x2) \div Scale
        x8 == (x4 * x4) \div Scale
    IN  Scale - x2 \div 2 + x4 \div 24 - x6 \div 720 + x8 \div 40320

\* math.cos(x), x in 1/Scale radians, any sign.  2 * pi is 6283.185 / Scale:
\* the reduction takes the 0.185 back for every whole turn.
Cos(x) ==
    LET k == x \div TwoPi
        r == (x - k * TwoPi - (k * 185) \div 1000) % TwoPi
        h == IF r > Pi THEN TwoPi - r ELSE r
    IN  IF h > HalfPi THEN 0 - CosSeries(Pi - h) ELSE CosSeries(h)

\* math.sin(x) = cos(x - pi/2)
Sin(x) == Cos(x - HalfPi)

\* exp(-k) for whole k, in 1/Scale.
ExpNegWhole(k) == CASE k = 0 -> 1000 [] k = 1 -> 368 [] k = 2 -> 135
                    [] k = 3 -> 50 [] k = 4 -> 18 [] k = 5 -> 7
                    [] k = 6 -> 2 [] k = 7 -> 1 [] OTHER -> 0

\* exp(-f) for 0 <= f < 1, f in 1/Scale: Taylor series to f^6.
ExpNegFrac(f) ==
    LET f2 == (f * f) \div Scale
        f3 == (f2 * f) \div Scale
        f4 == (f2 * f2) \div Scale
        f5 == (f4 * f) \div Scale
        f6 == (f3 * f3) \div Scale
    IN  Scale - f + f2 \div 2 - f3 \div 6 + f4 \div 24 - f5 \div 120 + f6 \div 720

\* math.exp(-t) for t >= 0, t in 1/Scale.
ExpNeg(t) == (ExpNegWhole(t \div Scale) * ExpNegFrac(t % Scale)) \div Scale

\* ------------------------------------------------------------------ datetime
\* dt.hour and dt.minute: calendar fields of the wall clock.
HourOf(dt) == (dt.wall \div (60 * TicksPerMinute)) % 24
MinuteOf(dt) == (dt.wall \div TicksPerMinute) % 60

\* The instant an aware datetime denotes, in ticks of UTC.
Instant(dt) == dt.wall - dt.off * TicksPerMinute

\* ------------------------------------------------------------------ waveform
\* round(max(0.0, usage), 2) with the clamp lost and a calibration offset
\* subtracted instead.
ClampRoundUnclamped(usage) == (usage - 4 * Scale + 5) \div 10

\* round(max(0.0, usage), 2): usage in 1/Scale, result in hundredths.
ClampRound(usage) == ((IF usage > 0 THEN usage ELSE 0) + 5) \div 10

get_usage_value_for_time(dt, meter_id) ==
    LET meter_num == ParseInt(Last6(meter_id))
        magnitude_bucket == meter_num % 10
        time_shift_bucket == (meter_num \div 10) % 10
        pattern_bucket == (meter_num \div 100) % 10
        \* hour = dt.hour + dt.minute / 60.0, kept in minutes
        hour == HourOf(dt) * 60 + MinuteOf(dt)
        \* (hour - time_shift_bucket + 4) % 24, in minutes
        hour_shifted == (hour - time_shift_bucket * 60 + 4 * 60) % MinutesPerDay
        base_load == 3 * Scale + magnitude_bucket * Scale
        magnitude == Scale \div 2 + (magnitude_bucket * Scale) \div 9
        \* (hour_shifted - 14) * (2 * pi / 24), in 1/Scale radians
        daily_phase == ((hour_shifted - 14 * 60) * TwoPi) \div MinutesPerDay
        daily_variation == 0 - Cos(daily_phase)
        morning_weight == ((10 - pattern_bucket) * Scale) \div 10
        evening_weight == (pattern_bucket * Scale) \div 10
        \* (hour_shifted - 7.5) ** 2 / 2 and (hour_shifted - 19) ** 2 / 2
        morning_d == hour_shifted - 450
        evening_d == hour_shifted - 19 * 60
        morning_t == (morning_d * morning_d * 5) \div 36
        evening_t == (evening_d * evening_d * 5) \div 36
        morning_spike == (ExpNeg(morning_t) * 5 * morning_weight) \div Scale
        evening_spike == (ExpNeg(evening_t) * 6 * evening_weight) \div Scale
        usage == base_load
                 + (((daily_variation + Scale) * 8 + morning_spike + evening_spike)
                    * magnitude) \div Scale
        \* math.sin(dt.minute * 0.1 + meter_num * 0.1) * 0.5
        minute_variation == Sin((MinuteOf(dt) + meter_num) * (Scale \div 10)) \div 2
    IN  ClampRound(usage + minute_variation)

\* ------------------------------------------------------- timestamps on the wire
\* A start_time or end_time string: kind "bad" is text fromisoformat rejects,
\* "naive" an ISO timestamp with no offset, "Z" one ending in a literal Z,
\* "offset" one ending in +HH:MM.  wall is its calendar fields, off the offset
\* it spells, in minutes.
TsBad == [kind |-> "bad", wall |-> 0, off |-> 0]
TsNaive(w) == [kind |-> "naive", wall |-> w, off |-> 0]
TsZ(w) == [kind |-> "Z", wall |-> w, off |-> 0]
TsOff(w, o) == [kind |-> "offset", wall |-> w, off |-> o]

NoDt == [wall |-> 0, aware |-> FALSE, off |-> 0]

\* s.replace("Z", "+00:00")
ReplaceZ(s) == IF s.kind = "Z" THEN [s EXCEPT !.kind = "offset", !.off = 0] ELSE s

\* datetime.fromisoformat(s): ok = FALSE is ValueError.
fromisoformat(s) ==
    CASE s.kind = "bad" -> [ok |-> FALSE, dt |-> NoDt]
      [] s.kind = "naive" -> [ok |-> TRUE, dt |-> [wall |-> s.wall, aware |-> FALSE, off |-> 0]]
      [] OTHER -> [ok |-> TRUE, dt |-> [wall |-> s.wall, aware |-> TRUE, off |-> s.off]]

\* current.strftime("%Y-%m-%dT%H:%M:%SZ"): the calendar fields of the wall clock
\* followed by a literal Z; the tzinfo is not consulted.
strftime(dt) == [kind |-> "Z", wall |-> dt.wall, off |-> 0]

\* a < b for two datetimes of the same awareness.
Before(a, b) == Instant(a) < Instant(b)

\* int((end_dt - start_dt).total_seconds() / 60), for end_dt after start_dt.
TotalMinutes(start_dt, end_dt) == (Instant(end_dt) - Instant(start_dt)) \div TicksPerMinute

\* current + timedelta(minutes=1): ok = FALSE is OverflowError.
AddMinute(dt) ==
    IF dt.wall + TicksPerMinute > MaxWall THEN [ok |-> FALSE, dt |-> dt]
    ELSE [ok |-> TRUE, dt |-> [dt EXCEPT !.wall = dt.wall + TicksPerMinute]]

\* --------------------------------------------------------------- responses
Response(status, detail, body) == [status |-> status, detail |-> detail, body |-> body]
NoResponse == Response(0, "none", <<>>)
NoRequest == [endpoint |-> "none", meter_id |-> <<>>, start_time |-> TsBad, end_time |-> TsBad]
NoFrame == [meter_id |-> <<>>, start_dt |-> NoDt, end_dt |-> NoDt]

\* ------------------------------------------------- get_meter_usage, validation
\* The handler up to its await: outcome "ok" carries the locals that live across
\* the await, any other outcome is the response of the exception raised.
Validate(valid_ids, meter_id, start_time, end_time) ==
    LET s == fromisoformat(ReplaceZ(start_time))
        e == fromisoformat(ReplaceZ(end_time))
        fail(status, detail) ==
            [ok |-> FALSE, resp |-> Response(status, detail, <<>>), frame |-> NoFrame]
    IN  IF meter_id \notin valid_ids THEN fail(404, "not_found")
        ELSE IF ~s.ok \/ ~e.ok THEN fail(400, "invalid_timestamp")
        ELSE IF s.dt.aware # e.dt.aware THEN fail(500, "TypeError")
        ELSE IF ~Before(s.dt, e.dt) THEN fail(400, "start_not_before_end")
        ELSE IF TotalMinutes(s.dt, e.dt) > MaxMinutes THEN fail(400, "range_too_large")
        ELSE [ok |-> TRUE, resp |-> NoResponse,
              frame |-> [meter_id |-> meter_id, start_dt |-> s.dt, end_dt |-> e.dt]]

\* ---------------------------------------------- get_meter_usage, materialization
\* One pass of "while current < end_dt:" over the loop state l: the test, then
\* the body (append a reading, current += timedelta(minutes=1)).  status
\* "returned" is the loop left by its test, "OverflowError" the addition
\* raising; evals logs the instant of each call of get_usage_value_for_time.
LoopStep(l, end_dt, meter_id) ==
    IF l.status # "running" THEN l
    ELSE IF ~Before(l.current, end_dt) THEN [l EXCEPT !.status = "returned"]
    ELSE LET reading == [timestamp |-> strftime(l.current),
                         value |-> get_usage_value_for_time(l.current, meter_id)]
             next == AddMinute(l.current)
         IN  [current |-> next.dt,
              readings |-> Append(l.readings, reading),
              evals |-> Append(l.evals, Instant(l.current)),
              status |-> IF next.ok THEN "running" ELSE "OverflowError"]

RECURSIVE Loop(_, _, _, _)
\* 2^k passes of the loop, by doubling (a pass over a finished loop changes
\* nothing).
Loop(l, end_dt, meter_id, k) ==
    IF l.status # "running" THEN l
    ELSE IF k = 0 THEN LoopStep(l, end_dt, meter_id)
    ELSE Loop(Loop(l, end_dt, meter_id, k - 1), end_dt, meter_id, k - 1)

Materialize(f) ==
    LET l0 == [current |-> f.start_dt, readings |-> <<>>, evals |-> <<>>, status |-> "running"]
        out == Loop(l0, f.end_dt, f.meter_id, LoopDoublings)
    IN  [resp |-> CASE out.status = "returned" -> Response(200, "ok", out.readings)
                    [] out.status = "OverflowError" -> Response(500, "OverflowError", <<>>)
                    [] OTHER -> Response(0, "running", out.readings),
         evals |-> out.evals]

\* ------------------------------------------------------------------- state
VARIABLES
    METERS,           \* the module-level list of meters
    VALID_METER_IDS,  \* the module-level set of meter ids
    pc,               \* per request: "idle", "meters_sleep", "usage_sleep", "done"
    req,              \* per request: the endpoint and query parameters received
    frame,            \* per request: the locals of get_meter_usage across its await
    resp,             \* per request: the response sent
    evals,            \* per request: the instants get_usage_value_for_time was called at
    wave_meter,       \* waveform sweep: the meter id evaluated
    wave_dt,          \* waveform sweep: the next datetime to evaluate
    wave_at,          \* waveform sweep: the datetime last evaluated
    wave_value        \* waveform sweep: the value returned for wave_at

vars == <<METERS, VALID_METER_IDS, pc, req, frame, resp, evals,
          wave_meter, wave_dt, wave_at, wave_value>>
catalog == <<METERS, VALID_METER_IDS>>
wave == <<wave_meter, wave_dt, wave_at, wave_value>>

\* The requests in flight at once: two connections, each reused by the next
\* request once its response is sent.
Reqs == {1, 2}

\* ------------------------------------------------------------------ inputs
UnknownMeter == <<9, 9, 9, 9, 9, 9, 9, 9, 9, 9>>
Offsets == {-300, 2, 300}

UsageRequest(m, s, e) ==
    [endpoint |-> "meter-usage", meter_id |-> m, start_time |-> s, end_time |-> e]
MetersRequest == [NoRequest EXCEPT !.endpoint = "meters"]

\* Short intervals from a minute-aligned start, for two catalog meters.
SmallRequests ==
    {UsageRequest(m, TsZ(Base), TsZ(Base + k)) :
        m \in {MeterId(0), MeterId(SampleMeter)}, k \in 0..MaxSmallTicks}
\* Short intervals from a start that is not minute-aligned.
UnalignedRequests ==
    {UsageRequest(MeterId(0), TsZ(Base + 1), TsZ(Base + 1 + k * TicksPerMinute)) : k \in 1..2}
\* Intervals around the 1440-minute cap.
CapRequests ==
    {UsageRequest(MeterId(0), TsZ(Base), TsZ(Base + MaxMinutes * TicksPerMinute + d)) :
        d \in {0, 1, TicksPerMinute}}
\* An id that is not in the catalog.
UnknownRequests ==
    {UsageRequest(UnknownMeter, TsZ(Base), TsZ(Base + TicksPerMinute)),
     UsageRequest(UnknownMeter, TsBad, TsBad)}
\* Timestamps that do not parse, or parse to a naive datetime.
ParseRequests ==
    {UsageRequest(MeterId(0), s, e) :
        s \in {TsBad, TsNaive(Base), TsZ(Base)},
        e \in {TsBad, TsNaive(Base + TicksPerMinute), TsZ(Base + TicksPerMinute)}}
    \ {UsageRequest(MeterId(0), TsBad, TsBad)}
\* A start_time with a UTC offset: the instant Base, spelled in another zone.
OffsetRequests ==
    {UsageRequest(MeterId(0), TsOff(Base + o * TicksPerMinute, o), TsZ(Base + 3 * TicksPerMinute)) :
        o \in Offsets}
    \cup
    {UsageRequest(MeterId(0), TsOff(Base + o * TicksPerMinute, o),
                  TsOff(Base + (o + 2) * TicksPerMinute, o)) : o \in {300}}
\* Timestamps at the upper end of the representable range.
EdgeRequests ==
    {UsageRequest(MeterId(0), TsZ(LastMinute - TicksPerMinute), TsZ(LastMinute)),
     UsageRequest(MeterId(0), TsZ(LastMinute), TsZ(MaxWall)),
     UsageRequest(MeterId(0), TsOff(LastMinute - TicksPerMinute, 300), TsZ(LastMinute))}

UsageRequests ==
    SmallRequests \cup UnalignedRequests \cup CapRequests \cup UnknownRequests
    \cup ParseRequests \cup OffsetRequests \cup EdgeRequests

\* -------------------------------------------------------------- operations
Init ==
    /\ METERS = BuildMeters
    /\ VALID_METER_IDS = BuildValidIds(BuildMeters)
    /\ pc = [r \in Reqs |-> "idle"]
    /\ req = [r \in Reqs |-> NoRequest]
    /\ frame = [r \in Reqs |-> NoFrame]
    /\ resp = [r \in Reqs |-> NoResponse]
    /\ evals = [r \in Reqs |-> <<>>]
    /\ wave_meter = <<>>
    /\ wave_dt = NoDt
    /\ wave_at = NoDt
    /\ wave_value = 0

\* The locals of request r's coroutine, as the code after the await reads them:
\* here, out of one module-level slot shared by all requests.
LocalsShared(r) == frame[1]

\* The locals of request r's coroutine, as the code after the await reads them.
Locals(r) == frame[r]

\* get_meters up to "await asyncio.sleep(0.1)".
get_meters_begin(r) ==
    /\ pc[r] = "idle"
    /\ req' = [req EXCEPT ![r] = MetersRequest]
    /\ pc' = [pc EXCEPT ![r] = "meters_sleep"]
    /\ UNCHANGED <<catalog, frame, resp, evals, wave>>

\* get_meters after the await: return METERS.
get_meters_return(r) ==
    /\ pc[r] = "meters_sleep"
    /\ resp' = [resp EXCEPT ![r] = Response(200, "ok", METERS)]
    /\ pc' = [pc EXCEPT ![r] = "done"]
    /\ UNCHANGED <<catalog, req, frame, evals, wave>>

\* get_meter_usage up to "await asyncio.sleep(0.1)": validation.
get_meter_usage_validate(r, q) ==
    /\ pc[r] = "idle"
    /\ LET v == Validate(VALID_METER_IDS, q.meter_id, q.start_time, q.end_time)
       IN  /\ req' = [req EXCEPT ![r] = q]
           /\ frame' = [frame EXCEPT ![r] = v.frame]
           /\ resp' = [resp EXCEPT ![r] = v.resp]
           /\ pc' = [pc EXCEPT ![r] = IF v.ok THEN "usage_sleep" ELSE "done"]
    /\ UNCHANGED <<catalog, evals, wave>>

\* get_meter_usage after the await: the loop and the return.
get_meter_usage_materialize(r) ==
    /\ pc[r] = "usage_sleep"
    /\ LET m == Materialize(Locals(r))
       IN  /\ resp' = [resp EXCEPT ![r] = m.resp]
           /\ evals' = [evals EXCEPT ![r] = m.evals]
    /\ pc' = [pc EXCEPT ![r] = "done"]
    /\ UNCHANGED <<catalog, req, frame, wave>>

\* The response has been sent and the coroutine is gone: the server takes the
\* next request.
Finish(r) ==
    /\ pc[r] = "done"
    /\ pc' = [pc EXCEPT ![r] = "idle"]
    /\ req' = [req EXCEPT ![r] = NoRequest]
    /\ frame' = [frame EXCEPT ![r] = NoFrame]
    /\ resp' = [resp EXCEPT ![r] = NoResponse]
    /\ evals' = [evals EXCEPT ![r] = <<>>]
    /\ UNCHANGED <<catalog, wave>>

Next ==
    \E r \in Reqs :
        \/ get_meters_begin(r)
        \/ get_meters_return(r)
        \/ \E q \in UsageRequests : get_meter_usage_validate(r, q)
        \/ get_meter_usage_materialize(r)
        \/ Finish(r)

Spec == Init /\ [][Next]_vars

\* ---------------------------------------------------------- waveform sweep
\* get_usage_value_for_time applied to one catalog meter at instants WaveStride
\* minutes apart over one day.
InitWave ==
    /\ METERS = BuildMeters
    /\ VALID_METER_IDS = BuildValidIds(BuildMeters)
    /\ pc = [r \in Reqs |-> "idle"]
    /\ req = [r \in Reqs |-> NoRequest]
    /\ frame = [r \in Reqs |-> NoFrame]
    /\ resp = [r \in Reqs |-> NoResponse]
    /\ evals = [r \in Reqs |-> <<>>]
    /\ wave_meter \in VALID_METER_IDS
    /\ wave_dt = [wall |-> Base, aware |-> TRUE, off |-> 0]
    /\ wave_at = NoDt
    /\ wave_value = 0

WaveEval ==
    /\ wave_dt.wall < Base + MinutesPerDay * TicksPerMinute
    /\ wave_value' = get_usage_value_for_time(wave_dt, wave_meter)
    /\ wave_at' = wave_dt
    /\ wave_dt' = [wave_dt EXCEPT !.wall = wave_dt.wall + WaveStride * TicksPerMinute]
    /\ UNCHANGED <<catalog, pc, req, frame, resp, evals, wave_meter>>

NextWave == WaveEval

SpecWave == InitWave /\ [][NextWave]_vars

\* ------------------------------------------------------------------ properties
\* The instant a timestamp string denotes to whoever reads it: its calendar
\* fields less the offset it spells (Z is offset zero; a naive one is read as UTC).
Denotes(ts) == ts.wall - ts.off * TicksPerMinute

UsageDone(r) == pc[r] = "done" /\ req[r].endpoint = "meter-usage"
\* Request r passed validation: its locals were carried across the await.
Accepted(r) == UsageDone(r) /\ frame[r] # NoFrame
Succeeded(r) == UsageDone(r) /\ resp[r].status = 200
Stamp(r, i) == Denotes(resp[r].body[i].timestamp)
Aware(ts) == ts.kind \in {"Z", "offset"}
MinuteAligned(ts) == Denotes(ts) % TicksPerMinute = 0

\* C1: no reading of a successful get_meter_usage response is stamped at end or
\* at any instant at or after end.
C1_HalfOpen ==
    \A r \in Reqs : Succeeded(r) =>
        \A i \in 1..Len(resp[r].body) : Stamp(r, i) < Denotes(req[r].end_time)

\* C2: a request makes at most 1440 waveform evaluations and returns at most 1440
\* readings; an interval longer than 1440 minutes, by however little, is rejected
\* with a bad-request error, and one of exactly 1440 minutes is accepted.
C2_EvaluationCap ==
    \A r \in Reqs :
        /\ Len(evals[r]) <= MaxMinutes
        /\ Len(resp[r].body) <= MaxMinutes \/ req[r].endpoint # "meter-usage"
        /\ (/\ UsageDone(r)
            /\ req[r].meter_id \in VALID_METER_IDS
            /\ Aware(req[r].start_time) /\ Aware(req[r].end_time))
           => LET span == Denotes(req[r].end_time) - Denotes(req[r].start_time)
              IN  /\ span > MaxMinutes * TicksPerMinute => resp[r].status = 400
                  /\ span = MaxMinutes * TicksPerMinute => resp[r].status = 200

\* C3: for minute-aligned start < end accepted by validation, get_meter_usage
\* returns exactly (end - start) in whole minutes readings.
C3_Count ==
    \A r \in Reqs :
        (Accepted(r) /\ MinuteAligned(req[r].start_time) /\ MinuteAligned(req[r].end_time))
        => /\ resp[r].status = 200
           /\ Len(resp[r].body) * TicksPerMinute
                = Denotes(req[r].end_time) - Denotes(req[r].start_time)

\* C4: in a successful response the first reading is stamped at start and each
\* later one exactly one minute after its predecessor.
C4_Ordered ==
    \A r \in Reqs : Succeeded(r) =>
        /\ resp[r].body # <<>> => Stamp(r, 1) = Denotes(req[r].start_time)
        /\ \A i \in 1..(Len(resp[r].body) - 1) : Stamp(r, i + 1) = Stamp(r, i) + TicksPerMinute

\* The validation rules a request breaks, as the errors they map to.
Violations(q) ==
    (IF q.meter_id \notin BuildValidIds(BuildMeters) THEN {404} ELSE {})
    \cup (IF ~Aware(q.start_time) \/ ~Aware(q.end_time) THEN {400}
          ELSE IF Denotes(q.start_time) >= Denotes(q.end_time) THEN {400}
          ELSE IF Denotes(q.end_time) - Denotes(q.start_time) > MaxMinutes * TicksPerMinute
               THEN {400}
          ELSE {})

\* C5: a request that breaks a validation rule is answered with the matching
\* error (404 for an unknown meter, 400 for a timestamp that is not a
\* timezone-aware ISO-8601 one, for start >= end, for an over-long interval),
\* before any waveform evaluation and with no partial output.
C5_FailFast ==
    \A r \in Reqs :
        (pc[r] \in {"usage_sleep", "done"} /\ req[r].endpoint = "meter-usage"
         /\ Violations(req[r]) # {})
        => /\ pc[r] = "done"
           /\ resp[r].status \in Violations(req[r])
           /\ resp[r].body = <<>>
           /\ evals[r] = <<>>

\* C6: the timestamp of every reading of a successful response denotes, in UTC,
\* the instant at which the waveform was evaluated for that reading.
C6_StampIsInstant ==
    \A r \in Reqs : Succeeded(r) =>
        /\ Len(evals[r]) = Len(resp[r].body)
        /\ \A i \in 1..Len(resp[r].body) : Stamp(r, i) = evals[r][i]

\* C7: a request that passes validation completes materialization and returns
\* its series: no step between the end of validation and the return fails.
C7_Completes ==
    \A r \in Reqs : Accepted(r) => resp[r].status = 200

\* What request q is answered when it runs alone on a freshly started server:
\* the handler's two halves back to back.
RunAlone(q) ==
    IF q.endpoint = "meters" THEN Response(200, "ok", BuildMeters)
    ELSE LET v == Validate(BuildValidIds(BuildMeters), q.meter_id, q.start_time, q.end_time)
         IN  IF v.ok THEN Materialize(v.frame).resp ELSE v.resp

Suffix(id) == id[5] * 100000 + id[6] * 10000 + id[7] * 1000 + id[8] * 100 + id[9] * 10 + id[10]

\* C9: in every reachable state the catalog is the 1000 pairwise-distinct ids
\* 1020 followed by the six digits of 100000 + i, in order of i; the membership
\* set holds exactly those ids; and get_meters returns that list.
C9_CatalogUnchanged ==
    /\ Len(METERS) = NumMeters
    /\ \A k \in 1..Len(METERS) :
          LET id == METERS[k].meter_id
          IN  /\ DOMAIN METERS[k] = {"meter_id"}
              /\ Len(id) = 10
              /\ SubSeq(id, 1, 4) = <<1, 0, 2, 0>>
              /\ \A j \in 5..10 : id[j] \in 0..9
              /\ Suffix(id) = MeterBase + (k - 1)
    /\ Cardinality({METERS[k].meter_id : k \in 1..Len(METERS)}) = NumMeters
    /\ VALID_METER_IDS = {METERS[k].meter_id : k \in 1..Len(METERS)}
    /\ \A r \in Reqs :
          (pc[r] = "done" /\ req[r].endpoint = "meters")
          => resp[r].status = 200 /\ resp[r].body = METERS

\* One request has been answered the catalog while another, for an unknown
\* meter, has been refused.
C9_Witness ==
    /\ pc[1] = "done" /\ req[1].endpoint = "meters" /\ Len(resp[1].body) = NumMeters
    /\ pc[2] = "done" /\ req[2].endpoint = "meter-usage" /\ resp[2].status = 404

\* C10: get_usage_value_for_time never returns a negative value, for any
\* timestamp and any catalog meter.
C10_NonNegative ==
    wave_at # NoDt => wave_value >= 0

\* The last meter of the catalog evaluated in the second half of the day.
C10_Witness ==
    /\ wave_meter = METERS[NumMeters].meter_id
    /\ wave_at # NoDt
    /\ wave_at.wall >= Base + 12 * 60 * TicksPerMinute
    /\ wave_value > 0
====
